---------------------------- MODULE Spec2Model ----------------------------
(***************************************************************************)
(* Model of the camera-stream WebRTC demos (camera_stream.py and           *)
(* camera_stream_pose.py).                                                 *)
(*                                                                         *)
(* Two specifications share the variables:                                 *)
(*   Spec       the signaling side: /offer handlers, the                   *)
(*              connectionstatechange callbacks, the live-session set pcs, *)
(*              destruction of tracks (__del__) and process shutdown;      *)
(*   TrackSpec  one VideoTransformTrack: recv() and process_frame().       *)
(* recv() reads and writes only fields of its own track (self.cap,         *)
(* self.pts, self.pose, self.hands), which no handler or callback touches, *)
(* so the two sides are explored separately.                               *)
(*                                                                         *)
(* The two source files have the same offer(), callback and __main__; the  *)
(* pose file adds the detectors and process_frame.  variant names the file *)
(* that is running.  Spec runs the pose file: the plain file behaves the   *)
(* same with detCloses left out.  TrackSpec runs either.                   *)
(***************************************************************************)
EXTENDS Naturals, Integers, Sequences, FiniteSets

\* ------------------------------------------------------------------ bounds
MaxSessions == 2      \* /offer requests the model issues
MaxCalls    == 3      \* recv() calls on the modelled track
NPix        == 2      \* pixels of a modelled frame
MaxHands    == 1      \* hands the hand detector may report

Sess == 1..MaxSessions
Pix  == 1..NPix

VARIABLES
    \* ---- signaling side
    variant,          \* "plain" (camera_stream.py) or "pose" (camera_stream_pose.py)
    phase,            \* "running" | "exited"
    pcs,              \* the module-level set pcs
    body,             \* body[s]: the kind of JSON body of request s
    hpc,              \* hpc[s]: where the offer() coroutine of request s stands
    response,         \* response[s]: what offer() gave back to aiohttp
    connectionState,  \* pc.connectionState of the pc of request s ("none": no pc)
    video,            \* video[s]: the VideoTransformTrack of request s
    attached,         \* attached[s]: the track objects given to pc.addTrack
    capReleases,      \* capReleases[s]: calls of self.cap.release()
    detCloses,        \* detCloses[s]: calls of self.pose.close() (= of self.hands.close())
    cbPending,        \* on_connectionstatechange tasks scheduled, not yet run
    cbClosing,        \* callbacks suspended in "await pc.close()"
    cbDone,           \* sessions whose failed-state callback ran to its end
    closeCoros,       \* pcs for which shutdown created a close() coroutine
    \* ---- one track
    pts,              \* self.pts
    emitted,          \* pts values of the frames recv() returned, in order
    calls,            \* recv() calls so far
    fails,            \* recv() calls whose camera read failed
    last              \* record of the last recv() call

sigVars   == <<variant, phase, pcs, body, hpc, response, connectionState, video,
               attached, capReleases, detCloses, cbPending, cbClosing, cbDone,
               closeCoros>>
trackVars == <<pts, emitted, calls, fails, last>>
vars      == <<sigVars, trackVars>>


\* ------------------------------------------------------------ signaling side

\* What a POST /offer may carry: a well-formed offer; JSON lacking "sdp" or
\* "type"; a "type" RTCSessionDescription rejects; an "sdp" text that
\* setRemoteDescription cannot parse.
BodyKinds == {"valid", "missing", "badtype", "badsdp"}

\* Bodies for which line 113 raises (params["sdp"], params["type"],
\* RTCSessionDescription(...)): the line sits before the try.
RaisesBeforeTry(b) == b \in {"missing", "badtype"}

\* A lost update: the set is rebuilt from the new pc alone.
PcsAddLost(S, s) == {s}

\* pcs.add(pc)
PcsAdd(S, s) == S \cup {s}

\* pcs.discard(pc)
PcsDiscard(S, s) == S \ {s}

\* video = VideoTransformTrack(): every call of the constructor makes a new
\* object, with its own cv2.VideoCapture; objects are named after the request
\* whose handler built them.
NewTrack(s) == s

\* The observer testing for the wrong state.
IsFailedWrong(st) == st = "closed"

\* The test of the observer: pc.connectionState == "failed"
IsFailed(st) == st = "failed"

InitTrackVars ==
    /\ pts = 0
    /\ emitted = << >>
    /\ calls = 0
    /\ fails = 0
    /\ last = [ret |-> "none", read |-> FALSE]

Init ==
    /\ variant = "pose"
    /\ phase = "running"
    /\ pcs = {}
    /\ body = [s \in Sess |-> "none"]
    /\ hpc = [s \in Sess |-> "idle"]
    /\ response = [s \in Sess |-> "none"]
    /\ connectionState = [s \in Sess |-> "none"]
    /\ video = [s \in Sess |-> "none"]
    /\ attached = [s \in Sess |-> {}]
    /\ capReleases = [s \in Sess |-> 0]
    /\ detCloses = [s \in Sess |-> 0]
    /\ cbPending = [s \in Sess |-> 0]
    /\ cbClosing = [s \in Sess |-> 0]
    /\ cbDone = {}
    /\ closeCoros = {}
    /\ InitTrackVars

\* aiohttp starts offer(request) for a POST /offer; the coroutine suspends at
\* "await request.json()".  Requests are numbered in arrival order.
Request(s) ==
    /\ phase = "running"
    /\ hpc[s] = "idle"
    /\ \A r \in Sess : r < s => hpc[r] # "idle"
    /\ \E b \in BodyKinds : body' = [body EXCEPT ![s] = b]
    /\ hpc' = [hpc EXCEPT ![s] = "json"]
    /\ UNCHANGED <<variant, phase, pcs, response, connectionState, video, attached,
                   capReleases, detCloses, cbPending, cbClosing, cbDone, closeCoros>>
    /\ UNCHANGED trackVars

\* offer() from the return of request.json() to its next await: parse the
\* body, build the pc, add it to pcs, register the observer, build the track
\* and add it, call setRemoteDescription.  camOk is cap.isOpened().
OfferStart(s) ==
    /\ phase = "running"
    /\ hpc[s] = "json"
    /\ IF RaisesBeforeTry(body[s])
       THEN \* the exception leaves offer(): no pc was built
            /\ hpc' = [hpc EXCEPT ![s] = "done"]
            /\ response' = [response EXCEPT ![s] = "raised"]
            /\ UNCHANGED <<pcs, connectionState, video, attached>>
       ELSE /\ pcs' = PcsAdd(pcs, s)
            /\ connectionState' = [connectionState EXCEPT ![s] = "new"]
            /\ \E camOk \in BOOLEAN :
                 IF camOk
                 THEN /\ video' = [video EXCEPT ![s] = "built"]
                      /\ attached' = [attached EXCEPT ![s] = @ \cup {NewTrack(s)}]
                      /\ hpc' = [hpc EXCEPT ![s] = "setRemote"]
                      /\ UNCHANGED response
                 ELSE \* RuntimeError out of __init__, caught by the except
                      /\ video' = [video EXCEPT ![s] = "partial"]
                      /\ hpc' = [hpc EXCEPT ![s] = "done"]
                      /\ response' = [response EXCEPT ![s] = "500"]
                      /\ UNCHANGED attached
    /\ UNCHANGED <<variant, phase, body, capReleases, detCloses, cbPending,
                   cbClosing, cbDone, closeCoros>>
    /\ UNCHANGED trackVars

\* The except clause: log, return web.Response(status=500, ...).
OfferExcept(s) ==
    /\ hpc' = [hpc EXCEPT ![s] = "done"]
    /\ response' = [response EXCEPT ![s] = "500"]

\* One of the three awaits of the try block returns (ok) or raises (~ok);
\* next is the await that follows, "done" after setLocalDescription.  A
\* connection that has left "new" has had its local description applied, so
\* the call did not raise.
OfferAwait(s, at, next) ==
    /\ phase = "running"
    /\ hpc[s] = at
    /\ \E ok \in BOOLEAN :
         /\ (at = "setRemote" /\ body[s] = "badsdp") => ~ok
         /\ connectionState[s] # "new" => ok
         /\ IF ok
            THEN /\ hpc' = [hpc EXCEPT ![s] = next]
                 /\ response' = [response EXCEPT
                                   ![s] = IF next = "done" THEN "200" ELSE @]
            ELSE OfferExcept(s)
    /\ UNCHANGED <<variant, phase, pcs, body, connectionState, video, attached,
                   capReleases, detCloses, cbPending, cbClosing, cbDone, closeCoros>>
    /\ UNCHANGED trackVars

OfferSetRemote(s)    == OfferAwait(s, "setRemote", "createAnswer")
OfferCreateAnswer(s) == OfferAwait(s, "createAnswer", "setLocal")
OfferSetLocal(s)     == OfferAwait(s, "setLocal", "done")

\* The WebRTC engine moves the connection state of a pc whose local
\* description is being, or has been, set, and emits connectionstatechange:
\* the event emitter schedules one run of the observer.
NextStates(st) ==
    CASE st = "new"        -> {"connecting"}
      [] st = "connecting" -> {"connected", "failed"}
      [] st = "connected"  -> {"failed"}
      [] OTHER             -> {}

StateChange(s) ==
    /\ phase = "running"
    /\ hpc[s] = "setLocal" \/ response[s] = "200"
    /\ \E st \in NextStates(connectionState[s]) :
         connectionState' = [connectionState EXCEPT ![s] = st]
    /\ cbPending' = [cbPending EXCEPT ![s] = @ + 1]
    /\ UNCHANGED <<variant, phase, pcs, body, hpc, response, video, attached,
                   capReleases, detCloses, cbClosing, cbDone, closeCoros>>
    /\ UNCHANGED trackVars

\* on_connectionstatechange up to its await: log the state; if it is
\* "failed", call pc.close() and suspend on it.  close() marks the pc closed.
CbRun(s) ==
    /\ phase = "running"
    /\ cbPending[s] > 0
    /\ cbPending' = [cbPending EXCEPT ![s] = @ - 1]
    /\ IF IsFailed(connectionState[s])
       THEN /\ connectionState' = [connectionState EXCEPT ![s] = "closed"]
            /\ cbClosing' = [cbClosing EXCEPT ![s] = @ + 1]
       ELSE UNCHANGED <<connectionState, cbClosing>>
    /\ UNCHANGED <<variant, phase, pcs, body, hpc, response, video, attached,
                   capReleases, detCloses, cbDone, closeCoros>>
    /\ UNCHANGED trackVars

\* on_connectionstatechange after "await pc.close()": pcs.discard(pc).
CbDiscard(s) ==
    /\ phase = "running"
    /\ cbClosing[s] > 0
    /\ cbClosing' = [cbClosing EXCEPT ![s] = @ - 1]
    /\ pcs' = PcsDiscard(pcs, s)
    /\ cbDone' = cbDone \cup {s}
    /\ UNCHANGED <<variant, phase, body, hpc, response, connectionState, video,
                   attached, capReleases, detCloses, cbPending, closeCoros>>
    /\ UNCHANGED trackVars

\* The pc of request s can still be reached from the program: from pcs, from
\* the frame of its offer() coroutine, or from the closure of a scheduled or
\* suspended observer.
PcReachable(s) ==
    \/ s \in pcs
    \/ hpc[s] # "done"
    \/ cbPending[s] > 0
    \/ cbClosing[s] > 0

\* The track of request s is garbage: a track whose __init__ raised is held
\* only by the exception, a track added to a pc is held by that pc.
TrackGarbage(s) ==
    \/ video[s] = "partial" /\ hpc[s] = "done"
    \/ video[s] = "built" /\ ~PcReachable(s)

\* VideoTransformTrack.__del__, run by the interpreter when it collects the
\* track: release cap if the attribute is there; in the pose file also close
\* pose and hands if those attributes are there (they are not when __init__
\* raised before creating them).
Del(s) ==
    /\ phase = "running"
    /\ video[s] \in {"partial", "built"}
    /\ TrackGarbage(s)
    /\ capReleases' = [capReleases EXCEPT ![s] = @ + 1]
    /\ detCloses' = [detCloses EXCEPT
                       ![s] = IF variant = "pose" /\ video[s] = "built"
                              THEN @ + 1 ELSE @]
    /\ video' = [video EXCEPT ![s] = "deleted"]
    /\ UNCHANGED <<variant, phase, pcs, body, hpc, response, connectionState,
                   attached, cbPending, cbClosing, cbDone, closeCoros>>
    /\ UNCHANGED trackVars

\* Ctrl+C: run_app returns, the event loop is gone, and the finally clause
\* runs "for pc in pcs: pc.close()".  close() is a coroutine function: each
\* call builds a coroutine object that nothing awaits, so no pc changes state.
Interrupt ==
    /\ phase = "running"
    /\ phase' = "exited"
    /\ closeCoros' = pcs
    /\ UNCHANGED <<variant, pcs, body, hpc, response, connectionState, video,
                   attached, capReleases, detCloses, cbPending, cbClosing, cbDone>>
    /\ UNCHANGED trackVars

Next ==
    \/ \E s \in Sess : Request(s)
    \/ \E s \in Sess : OfferStart(s)
    \/ \E s \in Sess : OfferSetRemote(s)
    \/ \E s \in Sess : OfferCreateAnswer(s)
    \/ \E s \in Sess : OfferSetLocal(s)
    \/ \E s \in Sess : StateChange(s)
    \/ \E s \in Sess : CbRun(s)
    \/ \E s \in Sess : CbDiscard(s)
    \/ \E s \in Sess : Del(s)
    \/ Interrupt

Spec == Init /\ [][Next]_vars

\* The event loop runs every scheduled observer and resumes every observer
\* whose close() finished, as long as the process runs.
FairSpec ==
    /\ Init /\ [][Next]_vars
    /\ \A s \in Sess : WF_vars(CbRun(s)) /\ WF_vars(CbDiscard(s))


\* ------------------------------------------------------------- one track

\* Pixel values (B, G, R) the camera may deliver.  The second is the colour
\* the pose landmarks are drawn in, so a drawing may leave a pixel as it was.
Palette == {<<10, 20, 30>>, <<0, 255, 0>>}
Frames  == [Pix -> Palette]

\* The frame of a failed read: cap.read() returns (False, None).
NoFrame == << >>

\* landmark_drawing_spec colours of the two draw_landmarks calls.
PoseLandmarkColor == <<0, 255, 0>>
HandLandmarkColor == <<0, 0, 255>>

\* self.time_base = Fraction(1, 30)
TimeBase == <<1, 30>>

\* A detector's answer is modelled as the pixel positions of its landmark
\* lists: pose_landmarks is << >> (None) or one list, multi_hand_landmarks
\* is << >> (None) or one list per hand.  A list is one landmark, so
\* draw_landmarks has no connection to draw.
PoseAnswers == {<< >>} \cup {<<p>> : p \in Pix}
HandAnswers == UNION {[1..n -> Pix] : n \in 0..MaxHands}

\* cv2.cvtColor(frame, cv2.COLOR_BGR2RGB): a new array, channels reversed.
CvtColor(f) == [p \in Pix |-> <<f[p][3], f[p][2], f[p][1]>>]

\* mp_drawing.draw_landmarks(frame, landmarks, ...): paints in place.
DrawLandmarks(f, pos, color) == [f EXCEPT ![pos] = color]

\* for hand_landmarks in hands_results.multi_hand_landmarks: draw_landmarks(...)
RECURSIVE DrawHands(_, _)
DrawHands(f, hs) ==
    IF hs = << >> THEN f
    ELSE DrawHands(DrawLandmarks(f, Head(hs), HandLandmarkColor), Tail(hs))

\* A process_frame whose hands pass is nested under the pose test.
ProcessFrameNested(frame, poseAns, handAns) ==
    LET found == poseAns # << >>
        f1 == IF found THEN DrawLandmarks(frame, poseAns[1], PoseLandmarkColor)
              ELSE frame
        hs == IF found THEN handAns ELSE << >>
    IN  [frame     |-> DrawHands(f1, hs),
         poseRuns  |-> 1,
         handsRuns |-> IF found THEN 1 ELSE 0,
         poseDraws |-> IF found THEN 1 ELSE 0,
         handDraws |-> Len(hs)]

\* process_frame(frame): poseAns and handAns are what self.pose.process and
\* self.hands.process answer for this frame.  The record counts the calls of
\* the two detectors and of draw_landmarks for each.
ProcessFrame(frame, poseAns, handAns) ==
    LET f1 == IF poseAns # << >>
              THEN DrawLandmarks(frame, poseAns[1], PoseLandmarkColor)
              ELSE frame
        f2 == IF handAns # << >> THEN DrawHands(f1, handAns) ELSE f1
    IN  [frame     |-> f2,
         poseRuns  |-> 1,
         handsRuns |-> 1,
         poseDraws |-> IF poseAns # << >> THEN 1 ELSE 0,
         handDraws |-> Len(handAns)]

\* A recv that counts the call whether or not it returned a frame.
NextPtsAlways(p, ret) == p + 1

\* self.pts after recv(): "self.pts += 1" is reached only past "if not ret".
NextPts(p, ret) == IF ret THEN p + 1 ELSE p

\* A recv that raises when the read fails.
RecvReturnRaise(ret) == IF ret THEN "frame" ELSE "raised"

\* What recv() gives its caller: "return None" or "return video_frame".
RecvReturn(ret) == IF ret THEN "frame" ELSE "None"

\* The frame handed to process_frame is left as it was when no process_frame
\* runs (a failed read, or the plain file).
NoProc(frame) ==
    [frame |-> frame, poseRuns |-> 0, handsRuns |-> 0, poseDraws |-> 0,
     handDraws |-> 0]

TrackInit ==
    /\ variant \in {"plain", "pose"}
    /\ phase = "running"
    /\ pcs = {}
    /\ body = [s \in Sess |-> "none"]
    /\ hpc = [s \in Sess |-> "idle"]
    /\ response = [s \in Sess |-> "none"]
    /\ connectionState = [s \in Sess |-> "none"]
    /\ video = [s \in Sess |-> "none"]
    /\ attached = [s \in Sess |-> {}]
    /\ capReleases = [s \in Sess |-> 0]
    /\ detCloses = [s \in Sess |-> 0]
    /\ cbPending = [s \in Sess |-> 0]
    /\ cbClosing = [s \in Sess |-> 0]
    /\ cbDone = {}
    /\ closeCoros = {}
    /\ InitTrackVars

\* One call of recv() on a constructed track.  ret and frame are what
\* self.cap.read() returns, poseAns and handAns what the detectors answer.
Recv ==
    /\ calls < MaxCalls
    /\ \E ret \in BOOLEAN, frame \in Frames \cup {NoFrame}, poseAns \in PoseAnswers,
          handAns \in HandAnswers :
         \* what is never consulted is fixed, to keep one transition per case
         /\ (~ret \/ variant = "plain") => (poseAns = << >> /\ handAns = << >>)
         /\ ret <=> frame # NoFrame
         /\ LET annotate == ret /\ variant = "pose"
                proc == IF annotate THEN ProcessFrame(frame, poseAns, handAns)
                        ELSE NoProc(frame)
            IN  /\ last' = [ret       |-> RecvReturn(ret),
                            read      |-> ret,
                            reads     |-> 1,
                            annotated |-> IF annotate THEN 1 ELSE 0,
                            in        |-> frame,
                            poseAns   |-> poseAns,
                            handAns   |-> handAns,
                            proc      |-> proc,
                            out       |-> IF ret THEN CvtColor(proc.frame)
                                          ELSE NoFrame,
                            framePts  |-> pts,
                            timeBase  |-> TimeBase,
                            ptsBefore |-> pts,
                            lenBefore |-> Len(emitted)]
                /\ emitted' = IF RecvReturn(ret) = "frame"
                              THEN Append(emitted, pts) ELSE emitted
                /\ pts' = NextPts(pts, ret)
                /\ fails' = IF ret THEN fails ELSE fails + 1
    /\ calls' = calls + 1
    /\ UNCHANGED sigVars

TrackNext == Recv

TrackSpec == TrackInit /\ [][TrackNext]_vars

\* ------------------------------------------------- claims, signaling side

\* Sessions for which a pc was constructed.
Created == {s \in Sess : connectionState[s] # "none"}

\* No offer() coroutine is in flight and no observer is scheduled or suspended.
Quiescent ==
    \A s \in Sess : hpc[s] \in {"idle", "done"} /\ cbPending[s] = 0 /\ cbClosing[s] = 0

\* C2: whenever offer() answered 500 after building the pc, that pc is not
\* in pcs.
C2_NoSessionRetainedOn500 ==
    \A s \in Sess : response[s] = "500" => s \notin pcs

\* C3: a request whose body lacks sdp or type, or carries a malformed one,
\* ends with a 500 response returned by offer() itself, and its pc is not in
\* pcs.
C3_BadBodyHandled ==
    \A s \in Sess :
        (hpc[s] = "done" /\ body[s] \in {"missing", "badtype", "badsdp"})
            => (response[s] = "500" /\ s \notin pcs)

\* C4: after an interrupt that found two or more connected sessions in pcs,
\* every session the shutdown loop visited is closed.
C4_ShutdownClosesAll ==
    (/\ phase = "exited"
     /\ Cardinality({s \in closeCoros : /\ response[s] = "200"
                                        /\ connectionState[s] = "connected"}) >= 2)
        => \A s \in closeCoros : connectionState[s] = "closed"

\* C5: a closed session has had its camera handle released exactly once, and
\* in the pose variant its detectors closed exactly once, by the close step.
C5_CloseReleasesOnce ==
    \A s \in Sess :
        connectionState[s] = "closed"
            => (/\ capReleases[s] = 1
                /\ variant = "pose" => detCloses[s] = 1)

\* C6: while the server runs, a session whose connection state is failed is
\* eventually closed and out of pcs; a session leaves pcs only in the step in
\* which its own observer resumes after close(), and that step removes no
\* other session.
C6_FailedLeadsToRemoved ==
    /\ \A s \in Sess :
         (connectionState[s] = "failed")
            ~> ((connectionState[s] = "closed" /\ s \notin pcs) \/ phase = "exited")
    /\ [][\A s \in Sess :
            /\ (s \in pcs /\ s \notin pcs') => cbClosing'[s] < cbClosing[s]
            /\ cbClosing'[s] < cbClosing[s] => pcs' = pcs \ {s}]_vars

\* A session went through failed, its observer closed and removed it, and
\* the other session is still in pcs.
C6_Witness ==
    \E s \in Sess, r \in Sess :
        /\ s # r
        /\ s \in cbDone /\ connectionState[s] = "closed" /\ s \notin pcs
        /\ r \in pcs /\ connectionState[r] = "connected"

\* C7: no session whose connection is closed is in pcs.
C7_NoClosedInPcs ==
    \A s \in pcs : connectionState[s] # "closed"

\* C10: in every state, and so once all handlers and observers have finished,
\* pcs is exactly the created sessions minus those whose failed-state
\* observer completed; each pc carries the track its own handler built, and
\* no two pcs carry the same track.
C10_PcsExact ==
    /\ pcs = Created \ cbDone
    /\ \A s \in Sess : attached[s] \subseteq {s}
    /\ \A s \in Sess, r \in Sess : s # r => attached[s] \cap attached[r] = {}

\* Two handlers and an observer interleaved and all finished: one session was
\* removed by its observer, the other stays.
C10_Witness ==
    /\ Quiescent
    /\ Cardinality(Created) >= 2
    /\ cbDone # {}
    /\ pcs # {}
    /\ \A s \in Sess : attached[s] # {}

\* ----------------------------------------------------- claims, one track

\* C1: the Nth frame recv() returned carries pts N-1; self.pts is the number
\* of frames returned so far, so a failed read neither advances nor resets
\* it, and no call lowers it.
C1_PtsCountsFrames ==
    /\ \A i \in 1..Len(emitted) : emitted[i] = i - 1
    /\ pts = Len(emitted)
    /\ last.ret # "none" =>
         /\ pts >= last.ptsBefore
         /\ ~last.read => pts = last.ptsBefore

\* Frames were returned before and after a failed read.
C1_Witness ==
    /\ fails >= 1
    /\ Len(emitted) >= 2
    /\ last.ret = "frame" /\ last.framePts = 1

\* C8 (pose file): every process_frame call runs both detectors once; it
\* draws once if a pose was found and once per hand found, whatever the
\* other pass found; pixels at no found landmark are as in the input, so
\* with nothing found the frame is identical to the input.
C8_PassesIndependent ==
    (variant = "pose" /\ last.ret = "frame") =>
        /\ last.proc.poseRuns = 1
        /\ last.proc.handsRuns = 1
        /\ last.proc.poseDraws = (IF last.poseAns # << >> THEN 1 ELSE 0)
        /\ last.proc.handDraws = Len(last.handAns)
        /\ \A p \in Pix :
             (/\ \A i \in 1..Len(last.poseAns) : last.poseAns[i] # p
              /\ \A i \in 1..Len(last.handAns) : last.handAns[i] # p)
                => last.proc.frame[p] = last.in[p]
        /\ (last.poseAns = << >> /\ last.handAns = << >>)
             => last.proc.frame = last.in
        /\ \A i \in 1..Len(last.handAns) :
             last.proc.frame[last.handAns[i]] = HandLandmarkColor

\* No pose was found, a hand was, and the hand was drawn.
C8_Witness ==
    /\ variant = "pose" /\ last.ret = "frame"
    /\ last.poseAns = << >> /\ last.handAns # << >>
    /\ last.proc.frame # last.in

\* C9: a recv() whose read failed made one read, returned None, returned no
\* frame and ran no annotation; a recv() whose read succeeded returned a
\* frame, however many reads failed before it.
C9_FailedReadSkipsTick ==
    last.ret # "none" =>
        /\ ~last.read =>
             /\ last.ret = "None"
             /\ last.reads = 1
             /\ last.annotated = 0
             /\ last.out = NoFrame
             /\ emitted = SubSeq(emitted, 1, last.lenBefore)
             /\ Len(emitted) = last.lenBefore
        /\ last.read =>
             /\ last.ret = "frame"
             /\ Len(emitted) = last.lenBefore + 1

\* A read failed and a later call returned a frame.
C9_Witness ==
    /\ fails >= 1
    /\ last.ret = "frame"
    /\ last.lenBefore = 0

=============================================================================
